---- MODULE Spec2Model ----
(***************************************************************************)
(* SynchronousDeferred / SynchronousFailure (sdefer.py).                   *)
(*                                                                         *)
(* A caller builds failure wrappers, constructs one deferred from an       *)
(* initial result and then makes registration calls on it (addCallback,    *)
(* addErrback, addCallbacks, addBoth) and synchronize calls.  A handler    *)
(* runs inside its registration call; while it runs it may itself make     *)
(* registration calls on the same deferred, so the handlers in progress    *)
(* form a stack.  Every handler ends by returning a value or raising.      *)
(***************************************************************************)
EXTENDS Integers, Sequences, FiniteSets

\* ---------------------------------------------------------------- bounds
\* registration calls made on the deferred in one run
MaxCalls == 2
\* handlers in progress at once (1 = no re-entrant registration)
MaxDepth == 2
\* failure wrappers the caller builds before constructing the deferred
MaxPre == 1
\* exception classes given to one check or trap call
MaxKinds == 2

\* ---------------------------------------------------------------- values
\* A Python value: None, a plain object, an exception instance of some
\* class, or a SynchronousFailure instance (a reference into heap).
None == [tag |-> "none", kind |-> "NoneType", n |-> 0]
Plain(i) == [tag |-> "plain", kind |-> "object", n |-> i]
Exc(k) == [tag |-> "exc", kind |-> k, n |-> 0]
Fail(i) == [tag |-> "fail", kind |-> "SynchronousFailure", n |-> i]

\* the value "foo" of the tests and the value 42 their handlers return
Foo == Plain(0)
FortyTwo == Plain(42)

\* no traceback (tb = None)
NoTb == "None"

\* the class hierarchy of the exceptions used (Python 2 builtins, and
\* class SynchronousFailure(Exception))
Superclass(k) ==
    CASE k = "ZeroDivisionError" -> "ArithmeticError"
      [] k = "ArithmeticError" -> "StandardError"
      [] k = "RuntimeError" -> "StandardError"
      [] k = "TypeError" -> "StandardError"
      [] k = "StandardError" -> "Exception"
      [] k = "SynchronousFailure" -> "Exception"
      [] k = "Exception" -> "BaseException"
      [] k = "KeyboardInterrupt" -> "BaseException"
      [] OTHER -> "object"

RECURSIVE IsSubclass(_, _)
IsSubclass(k, base) ==
    IF k = base THEN TRUE
    ELSE IF k = "object" THEN FALSE
    ELSE IsSubclass(Superclass(k), base)

\* isinstance(v, SynchronousFailure)
IsFailure(v) == v.tag = "fail"

\* v is an instance of a BaseException subclass, which raise accepts
IsExceptionInstance(v) == IsSubclass(v.kind, "BaseException")

VARIABLES
    pc,        \* "setup" before the deferred is constructed, then "chain"
    exc_info,  \* the caller's sys.exc_info(): [value, tb]
    heap,      \* the SynchronousFailure objects: Seq of [value, tb]
    result,    \* SynchronousDeferred.result
    initial,   \* the value the deferred was constructed with
    stack,     \* the registration calls whose handler is running
    last,      \* the registration call that completed most recently
    calls,     \* registration calls begun
    ninv,      \* handler invocations made
    leftBy,    \* the invocation whose outcome is in result (0: constructor)
    syncOut,   \* outcome of a synchronize call made in this state
    probe      \* the caller's latest call on a SynchronousFailure

vars == <<pc, exc_info, heap, result, initial, stack, last, calls, ninv,
          leftBy, syncOut, probe>>

NoExcInfo == [value |-> None, tb |-> NoTb]
NoOutcome == [kind |-> "none", v |-> None, tb |-> NoTb]

\* A call the caller makes on SynchronousFailure number w: op is "init",
\* "check", "trap" or "raiseException"; given, arg, info: whether __init__
\* was given a value, the value, and sys.exc_info() at that call; kinds:
\* the classes given to check / trap; cls: the class check / trap returned
\* ("None" for None); out: what the call raised.
NoProbe ==
    [op |-> "none", w |-> 0, given |-> "none", arg |-> None,
     info |-> NoExcInfo, kinds |-> <<>>, cls |-> "None", out |-> NoOutcome]

\* ------------------------------------------------------ SynchronousFailure
\* variant: the ambient error state is never consulted
SynchronousFailureNoCapture(value, info) == [value |-> value, tb |-> NoTb]

\* variant: the traceback is taken from the ambient state in every case
SynchronousFailureAlwaysTb(value, info) ==
    IF value = None
    THEN [value |-> info.value, tb |-> info.tb]
    ELSE [value |-> value, tb |-> info.tb]

\* SynchronousFailure.__init__(value): info is sys.exc_info() at the call
SynchronousFailure(value, info) ==
    IF value = None
    THEN [value |-> info.value, tb |-> info.tb]
    ELSE [value |-> value, tb |-> NoTb]

\* variant: "raise self.value", the stored traceback is not passed on
raiseExceptionDropsTb(w) ==
    IF IsExceptionInstance(w.value)
    THEN [kind |-> "raise", v |-> w.value, tb |-> NoTb]
    ELSE [kind |-> "raise", v |-> Exc("TypeError"), tb |-> NoTb]

\* The innermost frame of the traceback of an error raised by the raise
\* statement of raiseException: the traceback given to raise ends at the
\* site where that traceback was taken; with none given the innermost
\* frame is the raise statement itself.
DeepestFrame(out) == IF out.tb = NoTb THEN "raiseException" ELSE out.tb

\* SynchronousFailure.raiseException: raise type(value), value, tb.
\* A value that is no exception instance makes the raise statement itself
\* fail with a TypeError.
raiseException(w) ==
    IF IsExceptionInstance(w.value)
    THEN [kind |-> "raise", v |-> w.value, tb |-> w.tb]
    ELSE [kind |-> "raise", v |-> Exc("TypeError"), tb |-> NoTb]

\* what trap does when no class matches: raise self, from inside trap
RaiseSelf(i) == [kind |-> "raise", v |-> Fail(i), tb |-> "trap"]

\* isinstance(v, k) for a class k
IsInstance(v, k) == IsSubclass(v.kind, k)

\* variant: the loop does not stop at the first match
RECURSIVE checkLastMatch(_, _)
checkLastMatch(w, kinds) ==
    IF kinds = <<>> THEN "None"
    ELSE LET rest == checkLastMatch(w, Tail(kinds))
         IN IF rest # "None" THEN rest
            ELSE IF IsInstance(w.value, Head(kinds)) THEN Head(kinds)
            ELSE "None"

\* SynchronousFailure.check: the classes are tried in the order given; the
\* loop falling through returns None
RECURSIVE checkLoop(_, _)
checkLoop(w, kinds) ==
    IF kinds = <<>> THEN "None"
    ELSE IF IsInstance(w.value, Head(kinds)) THEN Head(kinds)
    ELSE checkLoop(w, Tail(kinds))

check(w, kinds) == checkLoop(w, kinds)

\* variant: the wrapped value is raised in place of the wrapper
trapRaisesValue(i, kinds) ==
    LET t == check(heap[i], kinds)
    IN IF t = "None"
       THEN [cls |-> "None",
             out |-> [kind |-> "raise", v |-> heap[i].value, tb |-> "trap"]]
       ELSE [cls |-> t, out |-> NoOutcome]

\* SynchronousFailure.trap on wrapper number i: the class check returns,
\* or self raised when check returns None
trap(i, kinds) ==
    LET t == check(heap[i], kinds)
    IN IF t = "None"
       THEN [cls |-> "None", out |-> RaiseSelf(i)]
       ELSE [cls |-> t, out |-> NoOutcome]

\* ----------------------------------------------------- SynchronousDeferred
\* variant: the failure is handed back instead of raised
synchronizeReturnsFailure(res) == [kind |-> "return", v |-> res, tb |-> NoTb]

\* variant: None is taken for "no result yet" and refused
synchronizeRefusesNone(res) ==
    IF IsFailure(res) THEN raiseException(heap[res.n])
    ELSE IF res = None THEN [kind |-> "raise", v |-> Exc("RuntimeError"), tb |-> NoTb]
    ELSE [kind |-> "return", v |-> res, tb |-> NoTb]

\* SynchronousDeferred.synchronize
synchronize(res) ==
    IF IsFailure(res)
    THEN raiseException(heap[res.n])
    ELSE [kind |-> "return", v |-> res, tb |-> NoTb]

\* variant: synchronize hands the result over and leaves None behind
synchronizeConsumes(res) == None

\* self.result once synchronize has returned or raised: synchronize and
\* raiseException assign nothing
synchronizeLeaves(res) == res

\* variants: a missing or a wrong isinstance test
addCallbackAlwaysInvokes(res) == {"callback"}
addCallbacksInvokesBoth(res) ==
    IF IsFailure(res) THEN {"errback"} ELSE {"callback", "errback"}
addBothSuccessOnly(res) == IF ~IsFailure(res) THEN {"callback"} ELSE {}

\* variant: the isinstance test of addErrback is inverted
addErrbackInverted(res) == IF ~IsFailure(res) THEN {"errback"} ELSE {}

\* which handlers each registration operation passes to _callCallback
addCallbackInvokes(res) == IF ~IsFailure(res) THEN {"callback"} ELSE {}
addErrbackInvokes(res) == IF IsFailure(res) THEN {"errback"} ELSE {}
addCallbacksInvokes(res) == IF IsFailure(res) THEN {"errback"} ELSE {"callback"}
addBothInvokes(res) == {"callback"}

Invokes(op, res) ==
    CASE op = "addCallback" -> addCallbackInvokes(res)
      [] op = "addErrback" -> addErrbackInvokes(res)
      [] op = "addCallbacks" -> addCallbacksInvokes(res)
      [] op = "addBoth" -> addBothInvokes(res)

\* The extra arguments of one handler: positional and keyword arguments.
NoArgs == [args |-> <<>>, kwargs |-> {}]
SomeArgs == [args |-> <<1>>, kwargs |-> {<<"more", "heyo">>}]
OtherArgs == [args |-> <<2>>, kwargs |-> {}]

\* What a registration call is given besides the handlers: own is *args,
\* **kwargs of addCallback / addErrback / addBoth; cb is callbackArgs,
\* callbackKwargs and eb is errbackArgs, errbackKwargs of addCallbacks.
NoSupply == [own |-> NoArgs, cb |-> NoArgs, eb |-> NoArgs]

\* variant: addCallbacks hands each handler the other handler's arguments
HandlerExtrasSwapped(op, which, sup) ==
    IF op = "addCallbacks"
    THEN IF which = "errback" THEN sup.cb ELSE sup.eb
    ELSE sup.own

\* the extra arguments _callCallback passes on to the handler it calls
HandlerExtras(op, which, sup) ==
    IF op = "addCallbacks"
    THEN IF which = "errback" THEN sup.eb ELSE sup.cb
    ELSE sup.own

\* variant: "return self" sits inside the if, so a call that invokes no
\* handler returns None
ReturnsSelfWhenInvoked(op, invoked) == IF invoked THEN "self" ELSE "None"

\* what a registration call returns to its caller: return self, whether
\* or not a handler was invoked
ReturnValue(op, invoked) == "self"

\* variant: an errback is given the wrapped error, not the wrapper
UnwrappedArgument(res) == IF IsFailure(res) THEN heap[res.n].value ELSE res

\* the first argument _callCallback gives the handler: self.result
HandlerArgument(res) == res

\* variant: "except Exception:" in place of the bare "except:"
callCallbackExceptException(out) ==
    IF out.kind = "return"
    THEN [result |-> out.v, heap |-> heap, escaped |-> FALSE]
    ELSE IF IsSubclass(out.v.kind, "Exception")
    THEN [result |-> Fail(Len(heap) + 1),
          heap |-> Append(heap,
                     SynchronousFailure(None, [value |-> out.v, tb |-> out.tb])),
          escaped |-> FALSE]
    ELSE [result |-> result, heap |-> heap, escaped |-> TRUE]

\* variant: a raised SynchronousFailure is stored as it is, not wrapped
callCallbackShortCircuits(out) ==
    IF out.kind = "return"
    THEN [result |-> out.v, heap |-> heap, escaped |-> FALSE]
    ELSE IF IsFailure(out.v)
    THEN [result |-> out.v, heap |-> heap, escaped |-> FALSE]
    ELSE [result |-> Fail(Len(heap) + 1),
          heap |-> Append(heap,
                     SynchronousFailure(None, [value |-> out.v, tb |-> out.tb])),
          escaped |-> FALSE]

\* variant: the outcome of a handler is not stored when a handler it
\* registered itself has already stored one
callCallbackKeepsNested(out) ==
    IF result # stack[Len(stack)].pre
    THEN [result |-> result, heap |-> heap, escaped |-> FALSE]
    ELSE IF out.kind = "return"
    THEN [result |-> out.v, heap |-> heap, escaped |-> FALSE]
    ELSE [result |-> Fail(Len(heap) + 1),
          heap |-> Append(heap,
                     SynchronousFailure(None, [value |-> out.v, tb |-> out.tb])),
          escaped |-> FALSE]

\* variant: the handler's return value is not assigned to self.result
callCallbackDropsReturn(out) ==
    IF out.kind = "return"
    THEN [result |-> result, heap |-> heap, escaped |-> FALSE]
    ELSE [result |-> Fail(Len(heap) + 1),
          heap |-> Append(heap,
                     SynchronousFailure(None, [value |-> out.v, tb |-> out.tb])),
          escaped |-> FALSE]

\* _callCallback once the handler has ended with outcome out (a return of
\* out.v, or a raise of out.v with traceback out.tb): the new result, the
\* new heap, and whether the error left the registration call.
callCallback(out) ==
    IF out.kind = "return"
    THEN [result |-> out.v, heap |-> heap, escaped |-> FALSE]
    ELSE [result |-> Fail(Len(heap) + 1),
          heap |-> Append(heap,
                     SynchronousFailure(None, [value |-> out.v, tb |-> out.tb])),
          escaped |-> FALSE]

\* ------------------------------------------------------------ call records
\* One registration call.  pre: result when the call began; prevOutcome,
\* prevVal: how the call completed just before it ended, and the value its
\* handler returned or the error it raised; ncb/neb: invocations of the
\* callback / the errback; inv: number of its handler invocation; leftBy:
\* the invocation whose outcome was in result when the handler started;
\* outcome: "running", "skipped", "returned" or "raised"; val: the value
\* returned or the error raised; post: result when the call returned;
\* heapLen: wrappers existing when the call began; ret: what the call
\* returned to its caller; sup, extra: while the handler runs, the extra
\* arguments the call was given and those the handler received.
NoCall ==
    [op |-> "construct", pre |-> None, prevOutcome |-> "none",
     prevVal |-> None,
     which |-> "none", arg |-> None, ncb |-> 0, neb |-> 0, inv |-> 0,
     leftBy |-> 0, outcome |-> "none", val |-> None, post |-> None,
     heapLen |-> 0, escaped |-> FALSE, ret |-> "none",
     sup |-> NoSupply, extra |-> NoArgs]

Ops == {"addCallback", "addErrback", "addCallbacks", "addBoth"}

\* ------------------------------------------------------------------- Init
Init ==
    /\ pc = "setup"
    /\ exc_info = NoExcInfo
    /\ heap = <<>>
    /\ result = None
    /\ initial = None
    /\ stack = <<>>
    /\ last = NoCall
    /\ calls = 0
    /\ ninv = 0
    /\ leftBy = 0
    /\ syncOut = NoOutcome
    /\ probe = NoProbe

\* ---------------------------------------------------------------- actions
\* the errors the handlers raise
RaisedKinds == {"ZeroDivisionError", "KeyboardInterrupt"}

\* try: 1/0  except: ...  in the caller: an error is being handled
CallerRaises ==
    /\ pc = "setup"
    /\ exc_info = NoExcInfo
    /\ exc_info' = [value |-> Exc("ZeroDivisionError"), tb |-> "caller"]
    /\ UNCHANGED <<pc, heap, result, initial, stack, last, calls, ninv,
                   leftBy, syncOut, probe>>

\* the caller constructs SynchronousFailure(v), None among the values v
ExplicitValues ==
    {None, Exc("RuntimeError"), Foo} \cup {Fail(i) : i \in 1..Len(heap)}

NewFailure(v) ==
    /\ pc = "setup"
    /\ Len(heap) < MaxPre
    /\ heap' = Append(heap, SynchronousFailure(v, exc_info))
    /\ probe' = [NoProbe EXCEPT !.op = "init", !.w = Len(heap) + 1,
                                !.given = "explicit", !.arg = v,
                                !.info = exc_info]
    /\ UNCHANGED <<pc, exc_info, result, initial, stack, last, calls, ninv,
                   leftBy, syncOut>>

\* the caller constructs SynchronousFailure(): value takes its default
NewFailureOmitted ==
    /\ pc = "setup"
    /\ Len(heap) < MaxPre
    /\ heap' = Append(heap, SynchronousFailure(None, exc_info))
    /\ probe' = [NoProbe EXCEPT !.op = "init", !.w = Len(heap) + 1,
                                !.given = "omitted", !.info = exc_info]
    /\ UNCHANGED <<pc, exc_info, result, initial, stack, last, calls, ninv,
                   leftBy, syncOut>>

\* the exception classes the caller gives to check and trap
Kinds == {"ZeroDivisionError", "ArithmeticError", "RuntimeError", "Exception"}
KindSeqs == UNION {[1..n -> Kinds] : n \in 0..MaxKinds}

\* check, trap and raiseException change nothing, so a run shows one such
\* call: a second one would start from the same wrappers
Inspected == probe.op \in {"check", "trap", "raiseException"}

\* the caller calls check(*kinds) on one of its wrappers
Check ==
    /\ pc = "setup"
    /\ ~Inspected
    /\ \E i \in 1..Len(heap), kinds \in KindSeqs :
          probe' = [NoProbe EXCEPT !.op = "check", !.w = i, !.kinds = kinds,
                                  !.cls = check(heap[i], kinds)]
    /\ UNCHANGED <<pc, exc_info, heap, result, initial, stack, last, calls,
                   ninv, leftBy, syncOut>>

\* the caller calls trap(*kinds) on one of its wrappers
Trap ==
    /\ pc = "setup"
    /\ ~Inspected
    /\ \E i \in 1..Len(heap), kinds \in KindSeqs :
          probe' = [NoProbe EXCEPT !.op = "trap", !.w = i, !.kinds = kinds,
                                  !.cls = trap(i, kinds).cls,
                                  !.out = trap(i, kinds).out]
    /\ UNCHANGED <<pc, exc_info, heap, result, initial, stack, last, calls,
                   ninv, leftBy, syncOut>>

\* the caller calls raiseException() on one of its wrappers
RaiseException ==
    /\ pc = "setup"
    /\ ~Inspected
    /\ \E i \in 1..Len(heap) :
          probe' = [NoProbe EXCEPT !.op = "raiseException", !.w = i,
                                  !.out = raiseException(heap[i])]
    /\ UNCHANGED <<pc, exc_info, heap, result, initial, stack, last, calls,
                   ninv, leftBy, syncOut>>

\* SynchronousDeferred.__init__(v)
InitialValues == {None, Foo} \cup {Fail(i) : i \in 1..Len(heap)}

Construct(v) ==
    /\ pc = "setup"
    /\ pc' = "chain"
    /\ result' = v
    /\ initial' = v
    /\ last' = [NoCall EXCEPT !.outcome = "constructed", !.post = v,
                              !.heapLen = Len(heap)]
    /\ probe' = NoProbe
    /\ UNCHANGED <<exc_info, heap, stack, calls, ninv, leftBy, syncOut>>

\* The extra arguments given to a registration call: none, or some; to
\* addCallbacks, different ones for the two handlers.  The handlers of
\* this model pass none to the registrations they make.
Supplied(op) ==
    IF stack # <<>> THEN {NoSupply}
    ELSE IF op = "addCallbacks"
    THEN {NoSupply, [NoSupply EXCEPT !.cb = SomeArgs, !.eb = OtherArgs]}
    ELSE {NoSupply, [NoSupply EXCEPT !.own = SomeArgs]}

\* A registration call begins, made by the caller or by the running
\* handler.  With no handler to invoke it returns self at once; otherwise
\* _callCallback invokes the handler with the current result.
Register(op) ==
    /\ pc = "chain"
    /\ calls < MaxCalls
    /\ Len(stack) < MaxDepth
    /\ calls' = calls + 1
    /\ syncOut' = NoOutcome
    /\ \E sup \in Supplied(op) :
       LET S == Invokes(op, result)
           which == IF "errback" \in S /\ IsFailure(result)
                    THEN "errback" ELSE "callback"
           call == [NoCall EXCEPT
                      !.op = op, !.pre = result,
                      !.prevOutcome = last.outcome, !.prevVal = last.val,
                      !.heapLen = Len(heap),
                      !.ncb = IF "callback" \in S THEN 1 ELSE 0,
                      !.neb = IF "errback" \in S THEN 1 ELSE 0]
       IN IF S = {}
          THEN /\ last' = [call EXCEPT !.outcome = "skipped",
                                       !.post = result,
                                       !.ret = ReturnValue(op, FALSE)]
               /\ UNCHANGED <<stack, ninv>>
          ELSE /\ stack' = Append(stack,
                      [call EXCEPT
                         !.which = which,
                         !.arg = HandlerArgument(result),
                         !.sup = sup,
                         !.extra = HandlerExtras(op, which, sup),
                         !.inv = ninv + 1, !.leftBy = leftBy,
                         !.outcome = "running"])
               /\ ninv' = ninv + 1
               /\ UNCHANGED last
    /\ UNCHANGED <<pc, exc_info, heap, result, initial, leftBy, probe>>

addCallback == Register("addCallback")
addErrback == Register("addErrback")
addCallbacks == Register("addCallbacks")
addBoth == Register("addBoth")

\* The running handler ends with outcome out; _callCallback stores the
\* outcome and the registration call returns self.
HandlerEnds(out) ==
    /\ stack # <<>>
    /\ LET f == stack[Len(stack)]
           c == callCallback(out)
       IN /\ result' = c.result
          /\ heap' = c.heap
          /\ last' = [f EXCEPT
                        !.outcome = IF out.kind = "return" THEN "returned"
                                    ELSE "raised",
                        !.val = out.v, !.post = c.result,
                        !.escaped = c.escaped,
                        !.ret = IF c.escaped THEN "none"
                                ELSE ReturnValue(f.op, TRUE),
                        !.sup = NoSupply, !.extra = NoArgs]
          /\ leftBy' = IF c.escaped THEN leftBy ELSE f.inv
    /\ stack' = SubSeq(stack, 1, Len(stack) - 1)
    /\ syncOut' = NoOutcome
    /\ UNCHANGED <<pc, exc_info, initial, calls, ninv, probe>>

\* what a handler called with arg may return: None (as list.append does),
\* 42, or its argument
ReturnValues(arg) == {None, FortyTwo, arg}

HandlerReturns ==
    /\ stack # <<>>
    /\ \E r \in ReturnValues(stack[Len(stack)].arg) :
          HandlerEnds([kind |-> "return", v |-> r, tb |-> NoTb])

\* what a handler called with arg may raise itself: a new error (the
\* failure it was given is raised by trap, see HandlerTraps)
RaiseValues(arg) == {Exc(k) : k \in RaisedKinds}

HandlerRaises ==
    /\ stack # <<>>
    /\ \E e \in RaiseValues(stack[Len(stack)].arg) :
          HandlerEnds([kind |-> "raise", v |-> e, tb |-> "handler"])

\* the classes a handler traps: a specific one and a general one
HandlerKinds == {"ZeroDivisionError", "Exception"}

\* A handler given a failure calls its trap(k) and then returns 42: when
\* k does not match, trap raises the failure and the handler ends there.
HandlerTraps ==
    /\ stack # <<>>
    /\ IsFailure(stack[Len(stack)].arg)
    /\ \E k \in HandlerKinds :
          LET t == trap(stack[Len(stack)].arg.n, <<k>>)
          IN IF t.out.kind = "raise"
             THEN HandlerEnds(t.out)
             ELSE HandlerEnds([kind |-> "return", v |-> FortyTwo, tb |-> NoTb])

\* the caller calls synchronize
Synchronize ==
    /\ pc = "chain"
    /\ stack = <<>>
    /\ syncOut' = synchronize(result)
    /\ result' = synchronizeLeaves(result)
    /\ UNCHANGED <<pc, exc_info, heap, initial, stack, last, calls,
                   ninv, leftBy, probe>>

Next ==
    \/ CallerRaises
    \/ \E v \in ExplicitValues : NewFailure(v)
    \/ NewFailureOmitted
    \/ \E v \in InitialValues : Construct(v)
    \/ Check
    \/ Trap
    \/ RaiseException
    \/ addCallback
    \/ addErrback
    \/ addCallbacks
    \/ addBoth
    \/ HandlerReturns
    \/ HandlerRaises
    \/ HandlerTraps
    \/ Synchronize

Spec == Init /\ [][Next]_vars

\* ------------------------------------------------------------- properties
Completed == last.op \in Ops
Returned(v) == [kind |-> "return", v |-> v, tb |-> NoTb]
Synchronized == syncOut # NoOutcome
Fresh == calls = 0 /\ Synchronized

\* C1: a registration call returns normally (it returns self, no error
\* leaves it) whatever its handler does; when the handler raised, the
\* deferred is left holding a failure.
C1_RegistrationNeverRaises ==
    Completed =>
        /\ ~last.escaped
        /\ last.ret = "self"
        /\ last.outcome = "raised" => IsFailure(last.post) /\ result = last.post

\* a failure deferred whose addBoth handler raised KeyboardInterrupt
C1_Witness ==
    /\ last.op = "addBoth"
    /\ IsFailure(last.pre)
    /\ last.outcome = "raised"
    /\ last.val = Exc("KeyboardInterrupt")

\* C2: when a handler raises e the deferred then holds a failure created
\* by that call (none that existed when the call began) whose value is e,
\* and an addErrback or addBoth call made next invokes its handler with
\* that failure.
C2_RaiseStoresNewFailure ==
    /\ (Completed /\ last.outcome = "raised") =>
          /\ IsFailure(last.post)
          /\ result = last.post
          /\ last.post.n > last.heapLen
          /\ last.post.n <= Len(heap)
          /\ last.post # last.pre
          /\ heap[last.post.n].value = last.val
    /\ (Completed /\ last.prevOutcome = "raised"
           /\ last.op \in {"addErrback", "addBoth"}) =>
          /\ last.outcome # "skipped"
          /\ IsFailure(last.arg)
          /\ last.arg.n = last.heapLen
          /\ heap[last.arg.n].value = last.prevVal

\* an errback raised on an earlier failure, and the next errback has run
C2_Witness ==
    /\ last.op = "addErrback"
    /\ last.prevOutcome = "raised"
    /\ last.prevVal = Exc("ZeroDivisionError")
    /\ last.outcome = "returned"
    /\ IsFailure(initial)
    /\ last.arg # initial

\* C3 as stated: whatever value r the handler returns, the deferred is then
\* in the Success state with value r and synchronize would return r.
C3_AnyReturnGivesSuccess ==
    (Completed /\ last.outcome = "returned") =>
        /\ last.post = last.val
        /\ ~IsFailure(last.post)
        /\ synchronize(last.post) = Returned(last.val)

\* C3, amended: the value r a handler returns becomes the result.  When r
\* is no failure wrapper the deferred is in the Success state: an
\* addCallback made next invokes its handler with r, an addErrback made
\* next invokes nothing, synchronize returns r.  When r is a failure
\* wrapper the deferred is in the Failure state holding r.
C3_ReturnStoresValue ==
    /\ (Completed /\ last.outcome = "returned") =>
          /\ last.post = last.val
          /\ result = last.val
          /\ Synchronized =>
                IF IsFailure(last.val) THEN syncOut.kind = "raise"
                ELSE syncOut = Returned(last.val)
    /\ (Completed /\ last.prevOutcome = "returned"
           /\ ~IsFailure(last.prevVal)) =>
          /\ last.op = "addCallback" =>
                last.ncb = 1 /\ last.arg = last.prevVal
          /\ last.op = "addErrback" =>
                last.outcome = "skipped" /\ last.post = last.prevVal
    /\ (Completed /\ last.prevOutcome = "returned"
           /\ IsFailure(last.prevVal)) =>
          /\ last.op = "addCallback" => last.outcome = "skipped"
          /\ last.op = "addErrback" =>
                last.neb = 1 /\ last.arg = last.prevVal

\* an errback returned 42 and synchronize was called
C3_Witness ==
    /\ last.op = "addErrback"
    /\ last.outcome = "returned"
    /\ last.val = FortyTwo
    /\ syncOut = Returned(FortyTwo)

\* C4: the n-th handler to be invoked starts when the outcome of the
\* (n-1)-th is what the deferred holds (the first starts on the
\* constructor's value): handlers run in registration order, each on the
\* applied effect of the one before.
C4_HandlersRunOnPreviousEffect ==
    /\ \A i \in 1..Len(stack) : stack[i].leftBy = stack[i].inv - 1
    /\ (Completed /\ last.inv > 0) => last.leftBy = last.inv - 1

\* C5: addCallback on a success invokes the callback once with the
\* success value; on a failure it invokes nothing and leaves the same
\* failure in place.
C5_AddCallback ==
    /\ (Completed /\ last.op = "addCallback") =>
          IF ~IsFailure(last.pre)
          THEN /\ last.ncb = 1 /\ last.neb = 0
               /\ last.outcome \in {"returned", "raised"}
               /\ last.arg = last.pre
          ELSE /\ last.ncb = 0 /\ last.neb = 0
               /\ last.outcome = "skipped"
               /\ last.post = last.pre
               /\ result = last.pre
    /\ \A i \in 1..Len(stack) :
          stack[i].op = "addCallback" =>
             ~IsFailure(stack[i].pre) /\ stack[i].arg = stack[i].pre

\* addCallback was called on a failure
C5_Witness ==
    /\ last.op = "addCallback"
    /\ IsFailure(last.pre)
    /\ last.outcome = "skipped"

\* C6: addErrback invokes the errback once, with the failure wrapper itself,
\* exactly when the deferred holds a failure; on a success it invokes
\* nothing and leaves the value in place.
C6_AddErrback ==
    /\ (Completed /\ last.op = "addErrback") =>
          IF IsFailure(last.pre)
          THEN /\ last.neb = 1 /\ last.ncb = 0
               /\ last.outcome \in {"returned", "raised"}
               /\ last.arg = last.pre
          ELSE /\ last.ncb = 0 /\ last.neb = 0
               /\ last.outcome = "skipped"
               /\ last.post = last.pre
               /\ result = last.pre
    /\ \A i \in 1..Len(stack) :
          stack[i].op = "addErrback" =>
             IsFailure(stack[i].pre) /\ stack[i].arg = stack[i].pre

\* addErrback ran its errback on a failure that wraps an exception
C6_Witness ==
    /\ last.op = "addErrback"
    /\ IsFailure(last.pre)
    /\ last.arg = last.pre
    /\ heap[last.pre.n].value = Exc("RuntimeError")
    /\ last.outcome = "returned"

\* C7: addCallbacks invokes one handler per call: the callback on a
\* success, the errback on a failure; when that handler raises the other
\* is not invoked and the deferred ends in the Failure state.
C7_AddCallbacks ==
    /\ (Completed /\ last.op = "addCallbacks") =>
          /\ last.ncb + last.neb = 1
          /\ last.arg = last.pre
          /\ IF IsFailure(last.pre)
             THEN last.neb = 1 /\ last.which = "errback"
             ELSE last.ncb = 1 /\ last.which = "callback"
          /\ last.outcome \in {"returned", "raised"}
          /\ last.outcome = "raised" => IsFailure(last.post) /\ result = last.post
    /\ \A i \in 1..Len(stack) :
          stack[i].op = "addCallbacks" => stack[i].ncb + stack[i].neb = 1

\* the callback of an addCallbacks call raised
C7_Witness ==
    /\ last.op = "addCallbacks"
    /\ ~IsFailure(last.pre)
    /\ last.outcome = "raised"
    /\ last.neb = 0

\* C8: addBoth invokes its handler once in every state, with the success
\* value or with the failure wrapper, whichever the deferred holds.
C8_AddBoth ==
    (Completed /\ last.op = "addBoth") =>
        /\ last.ncb + last.neb = 1
        /\ last.outcome \in {"returned", "raised"}
        /\ last.arg = last.pre

\* addBoth ran its handler on a failure
C8_Witness ==
    /\ last.op = "addBoth"
    /\ IsFailure(last.pre)
    /\ last.arg = last.pre
    /\ last.outcome = "returned"

\* C9 as stated: synchronize on a deferred constructed from any failure
\* wrapper w raises the value w wraps.
C9_SynchronizeRaisesWrappedValue ==
    (Fresh /\ IsFailure(initial)) =>
        /\ syncOut.kind = "raise"
        /\ syncOut.v = heap[initial.n].value

\* C9, amended: synchronize on a deferred constructed from a failure
\* wrapper w never returns; it raises w's value, with w's traceback, when
\* that value is an exception instance, and a TypeError otherwise (w built
\* with no value while no error was being handled, or around a value that
\* is no exception).
C9_SynchronizeRaises ==
    (Fresh /\ IsFailure(initial)) =>
        /\ syncOut.kind = "raise"
        /\ IF IsExceptionInstance(heap[initial.n].value)
           THEN /\ syncOut.v = heap[initial.n].value
                /\ syncOut.tb = heap[initial.n].tb
           ELSE syncOut.v = Exc("TypeError")

\* synchronize raised the error a wrapper captured from the ambient state
C9_Witness ==
    /\ Fresh
    /\ IsFailure(initial)
    /\ heap[initial.n].tb = "caller"
    /\ syncOut.kind = "raise"
    /\ syncOut.v = Exc("ZeroDivisionError")

\* C10: synchronize on a deferred constructed from a value that is no
\* failure wrapper, None included, returns that value.
C10_SynchronizeReturnsValue ==
    (Fresh /\ ~IsFailure(initial)) => syncOut = Returned(initial)

\* synchronize returned None from SynchronousDeferred(None)
C10_Witness ==
    /\ Fresh
    /\ initial = None
    /\ syncOut = Returned(None)

\* C11: an errback that returns 42, run by addErrback on a deferred that
\* holds any failure wrapper, leaves the deferred in the Success state
\* with 42, and synchronize then returns 42 instead of raising.
C11_ErrbackRecovers ==
    (Completed /\ last.op = "addErrback" /\ IsFailure(last.pre)) =>
        /\ last.neb = 1
        /\ last.outcome # "skipped"
        /\ (last.outcome = "returned" /\ last.val = FortyTwo) =>
              /\ result = FortyTwo
              /\ ~IsFailure(result)
              /\ Synchronized => syncOut = Returned(FortyTwo)

\* recovery from a wrapper built with no value and no error being handled
C11_Witness ==
    /\ calls = 1
    /\ IsFailure(initial)
    /\ heap[initial.n].value = None
    /\ last.op = "addErrback"
    /\ last.pre = initial
    /\ last.val = FortyTwo
    /\ syncOut = Returned(FortyTwo)

\* C12: check returns the first of the given classes, in the order given,
\* that the wrapped value is an instance of, whether or not a later one
\* matches too or is more specific, and None when none of them matches or
\* none is given.
C12_CheckFirstMatch ==
    probe.op = "check" =>
        LET v == heap[probe.w].value
            ks == probe.kinds
            Matches == {j \in 1..Len(ks) : IsSubclass(v.kind, ks[j])}
        IN IF Matches = {}
           THEN probe.cls = "None"
           ELSE \E j \in Matches :
                   /\ \A l \in Matches : j <= l
                   /\ probe.cls = ks[j]

\* check(Exception, ZeroDivisionError) on a wrapped ZeroDivisionError
\* returned Exception
C12_Witness ==
    /\ probe.op = "check"
    /\ heap[probe.w].value = Exc("ZeroDivisionError")
    /\ probe.kinds = <<"Exception", "ZeroDivisionError">>
    /\ probe.cls = "Exception"

\* C13: trap returns the class check returns for the same classes when one
\* matches; when none matches it returns nothing and raises the failure
\* wrapper it was called on, the same object.
C13_TrapReturnsOrRaisesSelf ==
    probe.op = "trap" =>
        LET c == check(heap[probe.w], probe.kinds)
        IN IF c # "None"
           THEN probe.cls = c /\ probe.out = NoOutcome
           ELSE /\ probe.cls = "None"
                /\ probe.out.kind = "raise"
                /\ probe.out.v = Fail(probe.w)

\* trap(ZeroDivisionError) on a wrapped RuntimeError raised the wrapper
C13_Witness ==
    /\ probe.op = "trap"
    /\ heap[probe.w].value = Exc("RuntimeError")
    /\ probe.kinds = <<"ZeroDivisionError">>
    /\ probe.out.kind = "raise"
    /\ probe.out.v = Fail(probe.w)

Ambient(info) == [value |-> info.value, tb |-> info.tb]
Stored(v) == [value |-> v, tb |-> NoTb]

\* C14 as stated: with the value omitted the wrapper holds the error being
\* handled and its context; with any value supplied it holds that value
\* and no context, whatever the ambient error state.
C14_ExplicitValueStoredAsGiven ==
    probe.op = "init" =>
        IF probe.given = "omitted"
        THEN heap[probe.w] = Ambient(probe.info)
        ELSE heap[probe.w] = Stored(probe.arg)

\* C14, amended: with the value omitted, or supplied as None, the wrapper
\* holds the error being handled and its context (None and no context when
\* no error is being handled); with any other value supplied it holds that
\* value and no context, whatever the ambient error state.
C14_InitCapturesOrStores ==
    probe.op = "init" =>
        IF probe.given = "omitted" \/ probe.arg = None
        THEN heap[probe.w] = Ambient(probe.info)
        ELSE heap[probe.w] = Stored(probe.arg)

\* SynchronousFailure(RuntimeError()) built while a ZeroDivisionError is
\* being handled
C14_Witness ==
    /\ probe.op = "init"
    /\ probe.given = "explicit"
    /\ probe.arg = Exc("RuntimeError")
    /\ probe.info.value = Exc("ZeroDivisionError")
    /\ heap[probe.w] = Stored(Exc("RuntimeError"))

\* C15: every registration call returns the deferred it was called on, in
\* the Success and in the Failure state, whether its handler was invoked
\* or not, returned or raised.
C15_ReturnsSelf ==
    Completed => last.ret = "self"

\* addErrback on a success invoked nothing and returned the deferred
C15_Witness ==
    /\ last.op = "addErrback"
    /\ ~IsFailure(last.pre)
    /\ last.outcome = "skipped"
    /\ last.ret = "self"

\* the error raiseException (called directly, or by synchronize) raised
\* from wrapper w is w's value with w's context, and the innermost frame
\* of its traceback is the site where w's context was captured
ReRaised(out, w) ==
    /\ out.kind = "raise"
    /\ out.v = w.value
    /\ out.tb = w.tb
    /\ DeepestFrame(out) = w.tb
    /\ DeepestFrame(out) # "raiseException"

\* C16: raiseException raises the wrapped value with the context captured
\* at construction; for a wrapper that captured its context from the
\* ambient error state the innermost frame of the raised error's traceback
\* is the site of the original raise, not the raise in raiseException.
C16_RaiseExceptionKeepsContext ==
    /\ (probe.op = "raiseException" /\ heap[probe.w].tb # NoTb) =>
          /\ ReRaised(probe.out, heap[probe.w])
          /\ DeepestFrame(probe.out) = "caller"
    /\ (probe.op = "raiseException"
           /\ IsExceptionInstance(heap[probe.w].value)) =>
          /\ probe.out.v = heap[probe.w].value
          /\ probe.out.tb = heap[probe.w].tb
    /\ (Synchronized /\ IsFailure(result) /\ heap[result.n].tb # NoTb) =>
          ReRaised(syncOut, heap[result.n])

\* raiseException on a wrapper built by SynchronousFailure() while the
\* caller handled 1/0
C16_Witness ==
    /\ probe.op = "raiseException"
    /\ heap[probe.w] = [value |-> Exc("ZeroDivisionError"), tb |-> "caller"]
    /\ probe.out.v = Exc("ZeroDivisionError")
    /\ DeepestFrame(probe.out) = "caller"

\* the extra arguments a registration call was given for the handler it
\* chooses in the state it was made in
GivenFor(f) ==
    IF f.op = "addCallbacks"
    THEN IF IsFailure(f.pre) THEN f.sup.eb ELSE f.sup.cb
    ELSE f.sup.own

\* C17: the handler a registration call invokes is called with the current
\* result followed by exactly the extra positional and keyword arguments
\* given for that handler; in addCallbacks the callback gets callbackArgs
\* and callbackKwargs, the errback errbackArgs and errbackKwargs, and the
\* arguments given for the handler not chosen are not used.
C17_ExtraArgumentsPassedThrough ==
    \A i \in 1..Len(stack) :
        /\ stack[i].arg = stack[i].pre
        /\ stack[i].extra = GivenFor(stack[i])

\* the errback of addCallbacks runs with errbackArgs, not callbackArgs
C17_Witness ==
    /\ Len(stack) = 1
    /\ stack[1].op = "addCallbacks"
    /\ stack[1].which = "errback"
    /\ stack[1].sup.cb = SomeArgs
    /\ stack[1].sup.eb = OtherArgs
    /\ stack[1].extra = OtherArgs

\* a handler given failure wrapper w ended because w.trap matched nothing
TrapEscaped ==
    /\ Completed
    /\ last.outcome = "raised"
    /\ IsFailure(last.arg)
    /\ last.val = last.arg

\* the class of the error that w, the failure given to the handler, wraps
TrappedKind == heap[last.arg.n].value.kind

\* C18 as stated: after an errback's w.trap matched nothing the deferred
\* holds a new wrapper w2 whose value is w, not the error e that w wraps;
\* w2.check(class of e) finds no match; synchronize raises w.
C18_RewrappedNeverMatches ==
    TrapEscaped =>
        /\ IsFailure(result)
        /\ result.n > last.heapLen
        /\ heap[result.n].value = last.arg
        /\ check(heap[result.n], <<TrappedKind>>) = "None"
        /\ synchronize(result).kind = "raise"
        /\ synchronize(result).v = last.arg

\* C18, amended: after an errback's w.trap matched nothing the deferred
\* holds a new wrapper w2 whose value is w, not the error e that w wraps;
\* w2.check(K), K the class of e, finds no match unless w itself is an
\* instance of K (K is SynchronousFailure, because e is itself a failure
\* wrapper, or K is one of its base classes Exception and BaseException);
\* synchronize raises w.
C18_RewrappedMatchesAsWrapper ==
    TrapEscaped =>
        /\ IsFailure(result)
        /\ result.n > last.heapLen
        /\ heap[result.n].value = last.arg
        /\ heap[result.n].tb = "trap"
        /\ (check(heap[result.n], <<TrappedKind>>) = "None")
              <=> ~IsSubclass("SynchronousFailure", TrappedKind)
        /\ \A k \in Kinds :
              check(heap[result.n], <<k>>) # "None" <=> k = "Exception"
        /\ synchronize(result).kind = "raise"
        /\ synchronize(result).v = last.arg
        /\ Synchronized => syncOut.v = last.arg

\* an errback trapped for ZeroDivisionError on a wrapped RuntimeError and
\* synchronize then raised the wrapper
C18_Witness ==
    /\ TrapEscaped
    /\ last.op = "addErrback"
    /\ heap[last.arg.n].value = Exc("RuntimeError")
    /\ syncOut.kind = "raise"
    /\ syncOut.v = last.arg

\* a handler g is invoked by a registration that the running handler h
\* made before any other handler's outcome was stored
NestedStarts ==
    /\ stack # <<>>
    /\ Len(stack') = Len(stack) + 1
    /\ leftBy = stack[Len(stack)].leftBy

\* the running handler h ends after a handler it registered stored an
\* outcome
EndsAfterNested ==
    /\ stack # <<>>
    /\ Len(stack') = Len(stack) - 1
    /\ leftBy > stack[Len(stack)].inv

C20_SynchronizeIsPureRead ==
    [][ /\ syncOut' # NoOutcome =>
              /\ result' = result
              /\ heap' = heap
              /\ <<stack', last', calls', ninv', leftBy'>>
                    = <<stack, last, calls, ninv, leftBy>>
              /\ syncOut' = synchronize(result)
              /\ syncOut # NoOutcome => syncOut' = syncOut
        /\ (syncOut # NoOutcome /\ Len(stack') > Len(stack)) =>
              stack'[Len(stack')].arg = result
      ]_vars

\* synchronize raised the error of a held failure that has a traceback,
\* after a handler had run, and the failure is still held
C20_Witness ==
    /\ Synchronized
    /\ calls > 0
    /\ IsFailure(result)
    /\ heap[result.n].tb # NoTb
    /\ syncOut = [kind |-> "raise", v |-> heap[result.n].value,
                  tb |-> heap[result.n].tb]

====
